---- MODULE Spec2Model ----
(***************************************************************************)
(* luminance-glutin, src/lib.rs: open_window builds a window and an OpenGL *)
(* 3.3 core context, makes it current, loads the GL function table, makes  *)
(* four channels and spawns a relay thread that forwards the window events *)
(* of the platform event loop; Device exposes width/height, draw and the   *)
(* four receivers.                                                         *)
(*                                                                         *)
(* Spec      : the calling thread (open_window, Device::draw, dropping a   *)
(*             Device), any number of devices up to MaxOpens.              *)
(* RelaySpec : the relay thread and the consumer of one Device, started in *)
(*             the state open_window(Windowed(800,600), "t",               *)
(*             WindowOpt::default()) returns in.                           *)
(***************************************************************************)
EXTENDS Integers, Sequences, FiniteSets, TLC

VARIABLES
    monitor,      \* <<w, h>> reported by get_primary_monitor().get_dimensions()
    calls,        \* number of open_window calls made so far
    dev,          \* dev[i]: the Device (or the error) the i-th call returned
    last,         \* the arguments, the result and the effects of the latest call
    current,      \* id of the window whose context is current on the caller (0: none)
    cursor,       \* the platform cursor: "Default" (visible) or "NoneCursor" (hidden)
    glLoadedBy,   \* id of the window whose get_proc_address filled the GL table (0: none)
    channels,     \* number of channels created so far
    spawned,      \* number of relay threads spawned so far
    joined,       \* number of relay threads joined so far
    thread,       \* thread[i]: state of the relay thread of device i
    rxAlive,      \* rxAlive[i][ch]: the receiver ch of device i has not been dropped
    queue,        \* queue[i][ch]: items sent on ch and not yet received
    received,     \* received[i][ch]: items the consumer has taken from ch
    delivered,    \* delivered[i]: events the platform loop handed to the relay closure
    sendErrs,     \* sendErrs[i]: sends of relay i that returned Err (and were ignored)
    draws,        \* number of Device::draw calls that returned
    drawLog       \* closure runs and buffer swaps, in the order they happened

vars == <<monitor, calls, dev, last, current, cursor, glLoadedBy, channels,
          spawned, joined, thread, rxAlive, queue, received, delivered, sendErrs,
          draws, drawLog>>

\* ---------------------------------------------------------------- bounds
MaxOpens == 2
MaxDraws == 2
MaxEvents == 3

DeviceIds == 1..MaxOpens

\* ---------------------------------------------------------------- inputs
Sizes == {<<800, 600>>, <<1, 2>>}
RestrictedSizes == {<<1024, 768>>}
Monitors == {<<1920, 1080>>}

Windowed(w, h) == [kind |-> "Windowed", w |-> w, h |-> h]
Fullscreen == [kind |-> "Fullscreen", w |-> 0, h |-> 0]
FullscreenRestricted(w, h) == [kind |-> "FullscreenRestricted", w |-> w, h |-> h]

WindowDim ==
    {Windowed(s[1], s[2]) : s \in Sizes} \cup {Fullscreen}
        \cup {FullscreenRestricted(s[1], s[2]) : s \in RestrictedSizes}

WindowOptDefault == [hide_cursor |-> FALSE]
hide_cursor(self, hide) == [self EXCEPT !.hide_cursor = hide]
is_cursor_hidden(self) == self.hide_cursor

WindowOpt == {WindowOptDefault} \cup {hide_cursor(WindowOptDefault, b) : b \in BOOLEAN}

Chans == {"kbd", "mouse", "cursor", "scroll"}

NoDevice == [st |-> "none", req |-> Fullscreen, w |-> 0, h |-> 0]
NoCall == [id |-> 0, dim |-> Fullscreen, opt |-> WindowOptDefault, built |-> FALSE,
           result |-> "none", trace |-> <<>>]

EmptyQueues == [ch \in Chans |-> <<>>]

Init ==
    /\ monitor \in Monitors
    /\ calls = 0
    /\ dev = [i \in DeviceIds |-> NoDevice]
    /\ last = NoCall
    /\ current = 0
    /\ cursor = "Default"
    /\ glLoadedBy = 0
    /\ channels = 0
    /\ spawned = 0
    /\ joined = 0
    /\ thread = [i \in DeviceIds |-> "none"]
    /\ rxAlive = [i \in DeviceIds |-> [ch \in Chans |-> FALSE]]
    /\ queue = [i \in DeviceIds |-> EmptyQueues]
    /\ received = [i \in DeviceIds |-> EmptyQueues]
    /\ delivered = [i \in DeviceIds |-> <<>>]
    /\ sendErrs = [i \in DeviceIds |-> 0]
    /\ draws = 0
    /\ drawLog = <<>>

\* ---------------------------------------------------------------- open_window
\* WindowSize with the FullscreenRestricted arm taking the monitor's dimensions.
WindowSizeOfMonitor(dim, mon) ==
    CASE dim.kind = "Windowed" -> <<dim.w, dim.h>>
      [] dim.kind = "Fullscreen" -> mon
      [] dim.kind = "FullscreenRestricted" -> mon

\* The (w, h) the match on dim binds next to the window.
WindowSize(dim, mon) ==
    CASE dim.kind = "Windowed" -> <<dim.w, dim.h>>
      [] dim.kind = "Fullscreen" -> mon
      [] dim.kind = "FullscreenRestricted" -> <<dim.w, dim.h>>

\* Calls made up to and including build_strict.
BuildTrace(dim) ==
    <<"EventsLoop::new">>
        \o (IF dim.kind = "Windowed" THEN <<>> ELSE <<"get_primary_monitor">>)
        \o <<"build_strict">>

\* BootTrace with the GL table loaded before the context is made current.
BootTraceLoadFirst(opt) ==
    <<"gl::load_with", "make_current">>
        \o (IF opt.hide_cursor THEN <<"set_cursor">> ELSE <<>>)
        \o <<"channel", "channel", "channel", "channel", "spawn", "Ok">>

\* Calls made after a successful build_strict.
BootTrace(opt) ==
    <<"make_current">>
        \o (IF opt.hide_cursor THEN <<"set_cursor">> ELSE <<>>)
        \o <<"gl::load_with", "channel", "channel", "channel", "channel", "spawn", "Ok">>

\* OpenErr with the channels created before the window is built.
OpenErrAfterChannels(dim, opt) ==
    /\ calls' = calls + 1
    /\ dev' = [dev EXCEPT ![calls + 1] = [NoDevice EXCEPT !.st = "error", !.req = dim]]
    /\ channels' = channels + 4
    /\ last' = [id |-> calls + 1, dim |-> dim, opt |-> opt, built |-> FALSE,
                result |-> "Err",
                trace |-> <<"channel", "channel", "channel", "channel">>
                              \o BuildTrace(dim) \o <<"Err">>]
    /\ UNCHANGED <<monitor, current, cursor, glLoadedBy, spawned, joined,
                   thread, rxAlive, queue, received, delivered, sendErrs, draws,
                   drawLog>>

\* build_strict failed: the ? operator returns the wrapped CreationError.
OpenErr(dim, opt) ==
    /\ calls' = calls + 1
    /\ dev' = [dev EXCEPT ![calls + 1] = [NoDevice EXCEPT !.st = "error", !.req = dim]]
    /\ last' = [id |-> calls + 1, dim |-> dim, opt |-> opt, built |-> FALSE,
                result |-> "Err", trace |-> BuildTrace(dim) \o <<"Err">>]
    /\ UNCHANGED <<monitor, current, cursor, glLoadedBy, channels, spawned, joined,
                   thread, rxAlive, queue, received, delivered, sendErrs, draws,
                   drawLog>>

\* build_strict succeeded: the rest of open_window runs to Ok(Device).
OpenOk(dim, opt) ==
    LET id == calls + 1
        size == WindowSize(dim, monitor)
    IN  /\ calls' = id
        /\ dev' = [dev EXCEPT ![id] =
                      [st |-> "live", req |-> dim, w |-> size[1], h |-> size[2]]]
        /\ current' = id
        /\ cursor' = IF opt.hide_cursor THEN "NoneCursor" ELSE cursor
        /\ glLoadedBy' = id
        /\ channels' = channels + 4
        /\ rxAlive' = [rxAlive EXCEPT ![id] = [ch \in Chans |-> TRUE]]
        /\ spawned' = spawned + 1
        /\ thread' = [thread EXCEPT ![id] = "running"]
        /\ last' = [id |-> id, dim |-> dim, opt |-> opt, built |-> TRUE,
                    result |-> "Ok", trace |-> BuildTrace(dim) \o BootTrace(opt)]
        /\ UNCHANGED <<monitor, joined, queue, received, delivered, sendErrs, draws,
                       drawLog>>

OpenWindow(dim, opt, built) ==
    /\ calls < MaxOpens
    /\ IF built THEN OpenOk(dim, opt) ELSE OpenErr(dim, opt)

width(i) == dev[i].w
height(i) == dev[i].h

\* ---------------------------------------------------------------- Device::draw
\* Draw that presents the frame only when the closure drew something.
DrawSkipsEmptyFrame(i, noop) ==
    /\ dev[i].st = "live"
    /\ draws < MaxDraws
    /\ draws' = draws + 1
    /\ drawLog' = drawLog \o <<[op |-> "f", dev |-> i, noop |-> noop]>>
                     \o (IF noop THEN <<>>
                         ELSE <<[op |-> "swap_buffers", dev |-> i, noop |-> noop]>>)
    /\ UNCHANGED <<monitor, calls, dev, last, current, cursor, glLoadedBy, channels,
                   spawned, joined, thread, rxAlive, queue, received, delivered,
                   sendErrs>>

\* f() runs, then self.window.swap_buffers().
Draw(i, noop) ==
    /\ dev[i].st = "live"
    /\ draws < MaxDraws
    /\ draws' = draws + 1
    /\ drawLog' = drawLog \o <<[op |-> "f", dev |-> i, noop |-> noop],
                               [op |-> "swap_buffers", dev |-> i, noop |-> noop]>>
    /\ UNCHANGED <<monitor, calls, dev, last, current, cursor, glLoadedBy, channels,
                   spawned, joined, thread, rxAlive, queue, received, delivered,
                   sendErrs>>

\* ---------------------------------------------------------------- drop(Device)
\* DropDevice with a Drop impl that joins the relay thread.
DropDeviceJoins(i) ==
    /\ dev[i].st = "live"
    /\ dev' = [dev EXCEPT ![i].st = "dropped"]
    /\ rxAlive' = [rxAlive EXCEPT ![i] = [ch \in Chans |-> FALSE]]
    /\ queue' = [queue EXCEPT ![i] = EmptyQueues]
    /\ joined' = joined + 1
    /\ thread' = [thread EXCEPT ![i] = "joined"]
    /\ UNCHANGED <<monitor, calls, last, current, cursor, glLoadedBy, channels,
                   spawned, received, delivered, sendErrs, draws, drawLog>>

\* No Drop impl: the fields are dropped, the JoinHandle detaches the thread.
DropDevice(i) ==
    /\ dev[i].st = "live"
    /\ dev' = [dev EXCEPT ![i].st = "dropped"]
    /\ rxAlive' = [rxAlive EXCEPT ![i] = [ch \in Chans |-> FALSE]]
    /\ queue' = [queue EXCEPT ![i] = EmptyQueues]
    /\ UNCHANGED <<monitor, calls, last, current, cursor, glLoadedBy, channels,
                   spawned, joined, thread, received, delivered, sendErrs,
                   draws, drawLog>>

\* ---------------------------------------------------------------- relay thread
\* The window events of the platform loop, with the fields the closure matches on.
Ev(kind, st, key, button, delta, x, y) ==
    [kind |-> kind, st |-> st, key |-> key, button |-> button, delta |-> delta,
     x |-> x, y |-> y]

KeyboardInput(st, key) == Ev("KeyboardInput", st, key, "-", "-", 0, 0)
MouseInput(st, button) == Ev("MouseInput", st, "-", button, "-", 0, 0)
MouseMoved(x, y) == Ev("MouseMoved", "-", "-", "-", "-", x, y)
MouseWheel(delta, x, y) == Ev("MouseWheel", "-", "-", "-", delta, x, y)
Closed == Ev("Closed", "-", "-", "-", "-", 0, 0)

Events ==
    {KeyboardInput("Pressed", "A"), KeyboardInput("Pressed", "None"),
     MouseInput("Pressed", "Left"),
     MouseMoved(16777217, 2), MouseWheel("LineDelta", 0, 1),
     MouseWheel("PixelDelta", 3, 0), Closed}

RECURSIVE Log2(_)
Log2(a) == IF a < 2 THEN 0 ELSE 1 + Log2(a \div 2)

RECURSIVE Pow2(_)
Pow2(n) == IF n = 0 THEN 1 ELSE 2 * Pow2(n - 1)

\* `x as f32`: the nearest value with a 24-bit significand, ties to even.
AsF32(x) ==
    LET a == IF x < 0 THEN -x ELSE x
        e == Log2(a)
        ulp == IF e > 23 THEN Pow2(e - 23) ELSE 1
        q == a \div ulp
        r == a % ulp
        m == IF 2 * r > ulp \/ (2 * r = ulp /\ q % 2 = 1) THEN (q + 1) * ulp ELSE q * ulp
    IN  IF x < 0 THEN -m ELSE m

\* Arm with the keyboard arm matching any KeyboardInput, key code or not.
ArmAnyKey(ev) ==
    CASE ev.kind = "KeyboardInput" -> "kbd"
      [] ev.kind = "MouseInput" -> "mouse"
      [] ev.kind = "MouseMoved" -> "cursor"
      [] ev.kind = "MouseWheel" -> "scroll"
      [] OTHER -> "none"

\* The arm of the closure's match the event takes: the sender it uses, or "none".
Arm(ev) ==
    CASE ev.kind = "KeyboardInput" /\ ev.key # "None" -> "kbd"
      [] ev.kind = "MouseInput" -> "mouse"
      [] ev.kind = "MouseMoved" -> "cursor"
      [] ev.kind = "MouseWheel" -> "scroll"
      [] OTHER -> "none"

\* The value the arm sends.
Item(ev) ==
    CASE Arm(ev) = "kbd" -> <<ev.key, ev.st>>
      [] Arm(ev) = "mouse" -> <<ev.button, ev.st>>
      [] Arm(ev) = "cursor" -> <<AsF32(ev.x), AsF32(ev.y)>>
      [] Arm(ev) = "scroll" -> <<ev.x, ev.y>>
      [] OTHER -> <<>>

\* Send that puts the value at the front of the queue.
SendFront(q, alive, item) ==
    [q |-> IF alive THEN <<item>> \o q ELSE q, ok |-> alive]

\* Sender::send: queues the value, or fails when the receiver is gone.
Send(q, alive, item) ==
    [q |-> IF alive THEN Append(q, item) ELSE q, ok |-> alive]

\* The queues of device i after the closure ran on ev.
Forward(i, ev) ==
    IF Arm(ev) = "none"
    THEN queue[i]
    ELSE [queue[i] EXCEPT ![Arm(ev)] =
              Send(queue[i][Arm(ev)], rxAlive[i][Arm(ev)], Item(ev)).q]

\* How many sends of the closure's run on ev returned Err.
SendFailures(i, ev) ==
    IF Arm(ev) # "none" /\ ~Send(queue[i][Arm(ev)], rxAlive[i][Arm(ev)], Item(ev)).ok
    THEN 1
    ELSE 0

\* RelayAfter with the closure interrupting the loop on a Closed event.
RelayAfterStopOnClose(i, ev) == IF ev.kind = "Closed" THEN "stopped" ELSE "running"

\* RelayAfter with the closure unwrapping the send's Result.
RelayAfterUnwrap(i, ev) == IF SendFailures(i, ev) > 0 THEN "panicked" ELSE "running"

\* The relay thread after the closure ran on ev: `let _ =` drops the send's
\* Result and no arm interrupts the loop.
RelayAfter(i, ev) == "running"

\* run_forever hands one event to the closure.
Deliver(i, ev) ==
    /\ thread[i] = "running"
    /\ Len(delivered[i]) < MaxEvents
    /\ delivered' = [delivered EXCEPT ![i] = Append(@, ev)]
    /\ queue' = [queue EXCEPT ![i] = Forward(i, ev)]
    /\ sendErrs' = [sendErrs EXCEPT ![i] = @ + SendFailures(i, ev)]
    /\ thread' = [thread EXCEPT ![i] = RelayAfter(i, ev)]
    /\ UNCHANGED <<monitor, calls, dev, last, current, cursor, glLoadedBy, channels,
                   spawned, joined, rxAlive, received, draws, drawLog>>

\* The consumer takes the oldest item of a receiver.
Recv(i, ch) ==
    /\ rxAlive[i][ch]
    /\ queue[i][ch] # <<>>
    /\ received' = [received EXCEPT ![i][ch] = Append(@, Head(queue[i][ch]))]
    /\ queue' = [queue EXCEPT ![i][ch] = Tail(@)]
    /\ UNCHANGED <<monitor, calls, dev, last, current, cursor, glLoadedBy, channels,
                   spawned, joined, thread, rxAlive, delivered, sendErrs,
                   draws, drawLog>>

\* The consumer drops one receiver (the fields are public).
DropReceiver(i, ch) ==
    /\ dev[i].st = "live"
    /\ rxAlive[i][ch]
    /\ rxAlive' = [rxAlive EXCEPT ![i][ch] = FALSE]
    /\ queue' = [queue EXCEPT ![i][ch] = <<>>]
    /\ UNCHANGED <<monitor, calls, dev, last, current, cursor, glLoadedBy, channels,
                   spawned, joined, thread, received, delivered, sendErrs,
                   draws, drawLog>>

\* The state open_window(Windowed(800, 600), "t", WindowOpt::default()) returns in.
RelayInit ==
    /\ monitor = <<1920, 1080>>
    /\ calls = 1
    /\ dev = [i \in DeviceIds |->
                 IF i = 1
                 THEN [st |-> "live", req |-> Windowed(800, 600), w |-> 800, h |-> 600]
                 ELSE NoDevice]
    /\ last = [id |-> 1, dim |-> Windowed(800, 600), opt |-> WindowOptDefault,
               built |-> TRUE, result |-> "Ok",
               trace |-> <<"EventsLoop::new", "build_strict", "make_current",
                           "gl::load_with", "channel", "channel", "channel", "channel",
                           "spawn", "Ok">>]
    /\ current = 1
    /\ cursor = "Default"
    /\ glLoadedBy = 1
    /\ channels = 4
    /\ spawned = 1
    /\ joined = 0
    /\ thread = [i \in DeviceIds |-> IF i = 1 THEN "running" ELSE "none"]
    /\ rxAlive = [i \in DeviceIds |-> [ch \in Chans |-> i = 1]]
    /\ queue = [i \in DeviceIds |-> EmptyQueues]
    /\ received = [i \in DeviceIds |-> EmptyQueues]
    /\ delivered = [i \in DeviceIds |-> <<>>]
    /\ sendErrs = [i \in DeviceIds |-> 0]
    /\ draws = 0
    /\ drawLog = <<>>

RelayNext ==
    \/ \E i \in DeviceIds, ev \in Events : Deliver(i, ev)
    \/ \E i \in DeviceIds, ch \in Chans : Recv(i, ch)
    \/ \E i \in DeviceIds, ch \in Chans : DropReceiver(i, ch)
    \/ \E i \in DeviceIds : DropDevice(i)

RelaySpec == RelayInit /\ [][RelayNext]_vars

\* RelayInit is a state Spec reaches (checked as a violated invariant).
NotRelayInit == ~RelayInit

Next ==
    \/ \E dim \in WindowDim, opt \in WindowOpt, built \in BOOLEAN :
          OpenWindow(dim, opt, built)
    \/ \E i \in DeviceIds, noop \in BOOLEAN : Draw(i, noop)
    \/ \E i \in DeviceIds : DropDevice(i)

Spec == Init /\ [][Next]_vars


\* ================================================================ claims (Spec)
Created == {i \in DeviceIds : dev[i].st \in {"live", "dropped"}}

\* First position of x in seq, 0 when absent.
Index(seq, x) ==
    IF \E k \in 1..Len(seq) : seq[k] = x
    THEN CHOOSE k \in 1..Len(seq) : seq[k] = x /\ \A j \in 1..(k - 1) : seq[j] # x
    ELSE 0

Count(seq, x) == Cardinality({k \in 1..Len(seq) : seq[k] = x})

\* C1: every open_window call returns either a DeviceError or a Device whose
\* width()/height() are the requested dimensions for Windowed and
\* FullscreenRestricted and the primary monitor's dimensions for Fullscreen,
\* and the width and height of a Device never change afterwards.
C1_SizeIsRequested ==
    /\ [](\A i \in DeviceIds :
            /\ i <= calls => dev[i].st \in {"error", "live", "dropped"}
            /\ i \in Created =>
                 /\ dev[i].req.kind \in {"Windowed", "FullscreenRestricted"}
                      => width(i) = dev[i].req.w /\ height(i) = dev[i].req.h
                 /\ dev[i].req.kind = "Fullscreen"
                      => width(i) = monitor[1] /\ height(i) = monitor[2])
    /\ [][\A i \in DeviceIds :
            /\ i \in Created =>
                 /\ dev'[i].w = dev[i].w /\ dev'[i].h = dev[i].h
                 /\ dev'[i].req = dev[i].req
            /\ (calls' = calls + 1 /\ i = calls') => dev'[i].req = last'.dim]_vars

C1_Witness ==
    /\ dev[1].st = "live" /\ dev[1].req = FullscreenRestricted(1024, 768)
    /\ width(1) = 1024 /\ height(1) = 768
    /\ dev[2].st = "live" /\ dev[2].req = Fullscreen /\ width(2) = 1920
    /\ draws = MaxDraws

\* C3: n draw calls have run n closures and n buffer swaps, strictly
\* alternating closure then swap on the drawn device, no-op closures included.
C3_DrawRunsThenSwaps ==
    /\ Len(drawLog) = 2 * draws
    /\ \A k \in 1..draws :
         /\ drawLog[2 * k - 1].op = "f"
         /\ drawLog[2 * k].op = "swap_buffers"
         /\ drawLog[2 * k].dev = drawLog[2 * k - 1].dev
         /\ drawLog[2 * k].noop = drawLog[2 * k - 1].noop

C3_Witness ==
    /\ draws = 2
    /\ drawLog[1].noop /\ ~drawLog[3].noop
    /\ drawLog[4].op = "swap_buffers"

\* C4: a call whose window/context construction fails returns the wrapped
\* error after one construction attempt, and has not made a context current,
\* changed the cursor, loaded the GL table, created a channel or spawned a
\* thread.
C4_FailedOpenDoesNothingElse ==
    [][(calls' = calls + 1 /\ ~last'.built) =>
          /\ last'.result = "Err"
          /\ dev'[calls'].st = "error"
          /\ Count(last'.trace, "build_strict") = 1
          /\ \A x \in {"make_current", "set_cursor", "gl::load_with", "channel",
                       "spawn"} : Count(last'.trace, x) = 0
          /\ UNCHANGED <<current, cursor, glLoadedBy, channels, spawned, thread,
                         rxAlive>>]_vars

C4_Witness ==
    /\ calls = 2
    /\ dev[1].st = "live"
    /\ last.result = "Err" /\ last.id = 2 /\ last.opt.hide_cursor
    /\ current = 1 /\ glLoadedBy = 1 /\ cursor = "Default" /\ channels = 4 /\ spawned = 1

C6_OneThreadPerDevice ==
    /\ spawned = Cardinality(Created)
    /\ joined = 0
    /\ \A i \in DeviceIds : thread[i] = (IF i \in Created THEN "running" ELSE "none")

C6_Witness ==
    /\ calls = 2 /\ spawned = 2
    /\ dev[1].st = "dropped" /\ dev[2].st = "live"
    /\ draws > 0

\* C7: a successful open_window builds the window, makes the context current,
\* loads the GL table, spawns the relay thread and then returns, in that
\* order; the context of the returned Device is current and the GL table is
\* loaded from it whenever a Device can be drawn on.
C7_BootOrder ==
    /\ last.result = "Ok" =>
         /\ 0 < Index(last.trace, "build_strict")
         /\ Index(last.trace, "build_strict") < Index(last.trace, "make_current")
         /\ Index(last.trace, "make_current") < Index(last.trace, "gl::load_with")
         /\ Index(last.trace, "gl::load_with") < Index(last.trace, "spawn")
         /\ Index(last.trace, "spawn") < Index(last.trace, "Ok")
         /\ Index(last.trace, "Ok") = Len(last.trace)
         /\ current = last.id /\ glLoadedBy = last.id
    /\ \A i \in DeviceIds : dev[i].st = "live" => current # 0 /\ glLoadedBy # 0

C7_Witness ==
    /\ last.result = "Ok" /\ last.opt.hide_cursor /\ last.dim = Fullscreen
    /\ draws > 0 /\ drawLog[1].dev = last.id


\* ================================================================ claims (RelaySpec)
\* The receiver an input event of the platform belongs to, by the kind of the
\* event alone: "kbd" for every keyboard input, with a key code or without.
InputReceiver(ev) ==
    CASE ev.kind = "KeyboardInput" -> "kbd"
      [] ev.kind = "MouseInput" -> "mouse"
      [] ev.kind = "MouseMoved" -> "cursor"
      [] ev.kind = "MouseWheel" -> "scroll"
      [] OTHER -> "none"

\* The events the relay recognises: a keyboard input carrying a virtual key
\* code, a mouse-button input, a cursor move, a mouse-wheel delta.
Recognised(ev) ==
    \/ ev.kind = "KeyboardInput" /\ ev.key # "None"
    \/ ev.kind \in {"MouseInput", "MouseMoved", "MouseWheel"}

\* The item a recognised event is to put on its receiver.
Expected(ev) ==
    CASE ev.kind = "KeyboardInput" -> <<ev.key, ev.st>>
      [] ev.kind = "MouseInput" -> <<ev.button, ev.st>>
      [] ev.kind = "MouseMoved" -> <<AsF32(ev.x), AsF32(ev.y)>>
      [] ev.kind = "MouseWheel" -> <<ev.x, ev.y>>

\* The items the recognised events of evs put on receiver ch, in order.
ExpectedItems(evs, ch) ==
    LET Mine(ev) == Recognised(ev) /\ InputReceiver(ev) = ch
        mine == SelectSeq(evs, Mine)
    IN  [k \in 1..Len(mine) |-> Expected(mine[k])]

\* The event a step of relay i handled, when the step is a delivery.
Delivers(i) == Len(delivered'[i]) = Len(delivered[i]) + 1
Handled(i) == delivered'[i][Len(delivered'[i])]

OthersUnchanged(i, ch) == \A c \in Chans \ {ch} : queue'[i][c] = queue[i][c]

\* C2 as stated: every keyboard, mouse-button, cursor-move or scroll event
\* delivered puts exactly one item on the matching (live) receiver.
C2_EveryInputEventOneItem ==
    \A i \in DeviceIds : \A ch \in Chans :
        rxAlive[i][ch] =>
            Len(received[i][ch]) + Len(queue[i][ch])
                = Cardinality({k \in 1..Len(delivered[i]) :
                                  InputReceiver(delivered[i][k]) = ch})

\* C2 as amended: on every receiver that has not been dropped, the items
\* received so far followed by the items still queued are exactly the items of
\* the delivered keyboard events that carry a virtual key code (respectively
\* mouse-button, cursor-move, scroll events), one per event, in delivery order.
C2_RecognisedEventsInOrder ==
    \A i \in DeviceIds : \A ch \in Chans :
        rxAlive[i][ch] =>
            received[i][ch] \o queue[i][ch] = ExpectedItems(delivered[i], ch)

C2_Witness ==
    /\ delivered[1] = <<MouseWheel("PixelDelta", 3, 0), KeyboardInput("Pressed", "None"),
                        MouseWheel("LineDelta", 0, 1)>>
    /\ received[1]["scroll"] = << <<3, 0>> >>
    /\ queue[1]["scroll"] = << <<0, 1>> >>
    /\ rxAlive[1]["kbd"] /\ received[1]["kbd"] \o queue[1]["kbd"] = <<>>

\* C8: no event makes the relay thread leave its loop: it is running after
\* every step, and an event delivered after a Closed event is still forwarded
\* to its live receiver.
C8_NoStopSignal ==
    [][\A i \in DeviceIds :
          /\ thread[i] = "running" => thread'[i] = "running"
          /\ (/\ Delivers(i)
              /\ \E k \in 1..Len(delivered[i]) : delivered[i][k].kind = "Closed"
              /\ Recognised(Handled(i))
              /\ rxAlive[i][InputReceiver(Handled(i))])
             => Len(queue'[i][InputReceiver(Handled(i))])
                    = Len(queue[i][InputReceiver(Handled(i))]) + 1]_vars

C8_Witness ==
    /\ delivered[1] = <<Closed, MouseInput("Pressed", "Left"), Closed>>
    /\ queue[1]["mouse"] = << <<"Left", "Pressed">> >>
    /\ thread[1] = "running"

\* C9: once a receiver has been dropped, an event destined for a dropped
\* receiver is discarded and leaves the relay thread running, and an event
\* destined for a live receiver is still appended to that receiver's queue
\* exactly once, behind the items already there.
C9_FailedSendSwallowed ==
    [][\A i \in DeviceIds :
          (Delivers(i) /\ Recognised(Handled(i)) /\ \E c \in Chans : ~rxAlive[i][c])
          => LET ch == InputReceiver(Handled(i))
             IN  /\ thread'[i] = "running"
                 /\ received'[i] = received[i]
                 /\ rxAlive'[i] = rxAlive[i]
                 /\ OthersUnchanged(i, ch)
                 /\ queue'[i][ch] = IF rxAlive[i][ch]
                                    THEN Append(queue[i][ch], Expected(Handled(i)))
                                    ELSE queue[i][ch]]_vars

C9_Witness ==
    /\ ~rxAlive[1]["kbd"] /\ rxAlive[1]["mouse"]
    /\ sendErrs[1] = 2
    /\ delivered[1] = <<KeyboardInput("Pressed", "A"), MouseInput("Pressed", "Left"),
                        KeyboardInput("Pressed", "A")>>
    /\ queue[1]["mouse"] = << <<"Left", "Pressed">> >>
    /\ thread[1] = "running"

\* C10 as stated: an unrecognised event leaves the four queues unchanged and
\* every recognised event appends to exactly one queue, leaving the other three
\* unchanged.
C10_RecognisedAppendsToOne ==
    [][\A i \in DeviceIds :
          Delivers(i) =>
              IF Recognised(Handled(i))
              THEN /\ queue'[i][InputReceiver(Handled(i))]
                         = Append(queue[i][InputReceiver(Handled(i))],
                                  Expected(Handled(i)))
                   /\ OthersUnchanged(i, InputReceiver(Handled(i)))
              ELSE queue'[i] = queue[i]]_vars

\* C10 as amended: an unrecognised event (a keyboard input with no virtual key
\* code included) leaves the four queues unchanged; a recognised event whose
\* receiver has not been dropped appends to exactly one queue and leaves the
\* other three unchanged; a recognised event whose receiver has been dropped
\* leaves all four unchanged.
C10_UnrecognisedChangesNothing ==
    [][\A i \in DeviceIds :
          Delivers(i) =>
              IF Recognised(Handled(i)) /\ rxAlive[i][InputReceiver(Handled(i))]
              THEN /\ queue'[i][InputReceiver(Handled(i))]
                         = Append(queue[i][InputReceiver(Handled(i))],
                                  Expected(Handled(i)))
                   /\ OthersUnchanged(i, InputReceiver(Handled(i)))
              ELSE queue'[i] = queue[i]]_vars

C10_Witness ==
    /\ delivered[1] = <<MouseWheel("PixelDelta", 3, 0), KeyboardInput("Pressed", "None"),
                        Closed>>
    /\ queue[1] = [EmptyQueues EXCEPT !["scroll"] = << <<3, 0>> >>]
    /\ sendErrs[1] = 0

====
